---- MODULE Spec2Model ----
(***************************************************************************)
(* Model of touchtone (src/main.rs): a DTMF tone generator.                *)
(*                                                                         *)
(* Two threads share one std::sync::mpsc channel.  The input thread reads  *)
(* bytes from stdin and, for every mapped key, sends Play, sleeps, sends   *)
(* Stop, sleeps.  The audio thread runs the PortAudio callback: it renders *)
(* one buffer from the two oscillators and then polls the channel once.    *)
(*                                                                         *)
(* Number representation                                                   *)
(*   characters : byte values 0..255 (stdin().bytes() cast to char)        *)
(*   frequency  : Hz, integers (every table entry is integral)             *)
(*   phase      : cycles * SAMPLE_HZ, so `phase += frequency / sample_hz`  *)
(*                is `phase + pitch` (exact, f64 rounding not modelled)    *)
(*   volume     : thousandths (0.2 is 200)                                 *)
(*   samples    : millionths (sine in thousandths times volume)            *)
(***************************************************************************)
EXTENDS Integers, Sequences, FiniteSets, TLC

VARIABLES
    pc,           \* position of the input thread: "read", "press", "done"
    character,    \* argument of the current / last call of play
    lookup,       \* result of to_frequencies(character) in play
    consumed,     \* history: the bytes read from stdin so far
    senderAlive,  \* tx has not been dropped
    queue,        \* the channel: commands sent and not yet received
    sent,         \* history: every command ever sent
    applied,      \* history: every command received by the callback
    osc_a,        \* DspNode::Oscillator(phase, pitch, volume), first input
    osc_b,        \* DspNode::Oscillator(phase, pitch, volume), second input
    buffer,       \* the buffer rendered by the last callback
    ret,          \* result of the last callback: "None" before the first
    ticks         \* number of callbacks run so far

vars == <<pc, character, lookup, consumed, senderAlive, queue, sent, applied,
          osc_a, osc_b, buffer, ret, ticks>>

----------------------------------------------------------------------------
(* Program constants *)

CHANNELS == 2
FRAMES == 64
SAMPLE_HZ == 44100
AudibleVolume == 200

(* Bounds of the model *)

MaxInput == 2
MaxTicks == 4

\* The bytes the stdin loop may deliver in the interleaving model:
\* '5' (53) and '#' (35), mapped, and 'x' (120), unmapped.
Keys == {53, 35, 120}

\* Every value of `character.unwrap() as char`.
Bytes == 0..255

----------------------------------------------------------------------------
(* Command and Option values *)

None == <<>>
Some(a, b) == <<a, b>>

Play(freq_a, freq_b) == [type |-> "Play", a |-> freq_a, b |-> freq_b]
Stop == [type |-> "Stop"]

Oscillator(phase, pitch, volume) ==
    [phase |-> phase, pitch |-> pitch, volume |-> volume]

----------------------------------------------------------------------------
(* to_frequencies *)

to_frequencies_five_wrong(c) ==
    CASE c = 49 -> Some(1209, 697)
      [] c = 50 -> Some(1336, 697)
      [] c = 51 -> Some(1477, 697)
      [] c = 65 -> Some(1633, 697)
      [] c = 52 -> Some(1209, 770)
      [] c = 53 -> Some(1336, 697)
      [] c = 54 -> Some(1477, 770)
      [] c = 66 -> Some(1633, 770)
      [] c = 55 -> Some(1209, 852)
      [] c = 56 -> Some(1336, 852)
      [] c = 57 -> Some(1477, 852)
      [] c = 67 -> Some(1633, 852)
      [] c = 42 -> Some(1209, 941)
      [] c = 48 -> Some(1336, 941)
      [] c = 35 -> Some(1477, 941)
      [] c = 68 -> Some(1633, 941)
      [] OTHER -> None

to_frequencies(c) ==
    CASE c = 49 -> Some(1209, 697)     \* '1'
      [] c = 50 -> Some(1336, 697)     \* '2'
      [] c = 51 -> Some(1477, 697)     \* '3'
      [] c = 65 -> Some(1633, 697)     \* 'A'
      [] c = 52 -> Some(1209, 770)     \* '4'
      [] c = 53 -> Some(1336, 770)     \* '5'
      [] c = 54 -> Some(1477, 770)     \* '6'
      [] c = 66 -> Some(1633, 770)     \* 'B'
      [] c = 55 -> Some(1209, 852)     \* '7'
      [] c = 56 -> Some(1336, 852)     \* '8'
      [] c = 57 -> Some(1477, 852)     \* '9'
      [] c = 67 -> Some(1633, 852)     \* 'C'
      [] c = 42 -> Some(1209, 941)     \* '*'
      [] c = 48 -> Some(1336, 941)     \* '0'
      [] c = 35 -> Some(1477, 941)     \* '#'
      [] c = 68 -> Some(1633, 941)     \* 'D'
      [] OTHER -> None

----------------------------------------------------------------------------
(* The channel: std::sync::mpsc, unbounded, FIFO *)

send_drop_when_busy(q, m) == IF q = <<>> THEN <<m>> ELSE q

send(q, m) == Append(q, m)

try_recv_never_disconnected(q, alive) ==
    IF q # <<>>
    THEN [tag |-> "Ok", msg |-> Head(q), rest |-> Tail(q)]
    ELSE [tag |-> "Empty", rest |-> q]

try_recv_drain_two(q, alive) ==
    IF q # <<>>
    THEN [tag |-> "Ok", msg |-> Head(q),
          rest |-> IF Len(q) >= 2 THEN Tail(Tail(q)) ELSE <<>>]
    ELSE IF alive
         THEN [tag |-> "Empty", rest |-> q]
         ELSE [tag |-> "Disconnected", rest |-> q]

try_recv_empty_is_disconnected(q, alive) ==
    IF q # <<>>
    THEN [tag |-> "Ok", msg |-> Head(q), rest |-> Tail(q)]
    ELSE [tag |-> "Disconnected", rest |-> q]

try_recv_disconnected_first(q, alive) ==
    IF ~alive
    THEN [tag |-> "Disconnected", rest |-> q]
    ELSE IF q # <<>>
         THEN [tag |-> "Ok", msg |-> Head(q), rest |-> Tail(q)]
         ELSE [tag |-> "Empty", rest |-> q]

\* A queued message is delivered even after the sender is gone; Disconnected
\* is reported only for an empty channel whose sender has been dropped.
try_recv(q, alive) ==
    IF q # <<>>
    THEN [tag |-> "Ok", msg |-> Head(q), rest |-> Tail(q)]
    ELSE IF alive
         THEN [tag |-> "Empty", rest |-> q]
         ELSE [tag |-> "Disconnected", rest |-> q]

----------------------------------------------------------------------------
(* Rendering *)

\* sin(phase * 2 pi) in thousandths: the phase is reduced to whole degrees
\* and the sine taken by Bhaskara's rational approximation.
sin_milli(phase) ==
    LET deg  == ((phase % SAMPLE_HZ) * 360) \div SAMPLE_HZ
        half == IF deg < 180 THEN deg ELSE deg - 180
        mag  == (4000 * half * (180 - half)) \div (40500 - half * (180 - half))
    IN  IF deg < 180 THEN mag ELSE 0 - mag

sine_wave_unscaled(phase, volume) == sin_milli(phase) * 1000

sine_wave(phase, volume) == sin_milli(phase) * volume

\* Frame::from_fn(|_| val): the same value on every channel.
Frame(val) == [ch \in 1..CHANNELS |-> val]

audio_requested_wraps(osc, n) ==
    LET phase[k \in 0..n] ==
            IF k = 0 THEN osc.phase ELSE (phase[k - 1] + osc.pitch) % SAMPLE_HZ
    IN  [out |-> [i \in 1..n |-> Frame(sine_wave(phase[i - 1], osc.volume))],
         osc |-> [osc EXCEPT !.phase = phase[n]]]

\* DspNode::audio_requested for an oscillator: one frame at a time, the
\* sample taken at the current phase and the phase advanced afterwards.
audio_requested(osc, n) ==
    LET phase[k \in 0..n] ==
            IF k = 0 THEN osc.phase ELSE phase[k - 1] + osc.pitch
    IN  [out |-> [i \in 1..n |-> Frame(sine_wave(phase[i - 1], osc.volume))],
         osc |-> [osc EXCEPT !.phase = phase[n]]]

\* Graph::audio_requested on the silenced buffer: the master Synth node sums
\* the buffers of its two oscillator inputs.  (Each oscillator is rendered
\* once: ra and rb are bound to the values of the two renderings.)
graph_audio_requested(a, b) ==
    CHOOSE g \in
        { [buffer |-> [i \in 1..FRAMES |->
                          [ch \in 1..CHANNELS |-> ra.out[i][ch] + rb.out[i][ch]]],
           a |-> ra.osc,
           b |-> rb.osc] :
          ra \in {audio_requested(a, FRAMES)},
          rb \in {audio_requested(b, FRAMES)} } : TRUE

----------------------------------------------------------------------------
(* The arms of the callback's match *)

OnPlay_reset_phase(osc, freq) ==
    [osc EXCEPT !.phase = 0, !.pitch = freq, !.volume = AudibleVolume]

OnPlay_keep_volume(osc, freq) == [osc EXCEPT !.pitch = freq]

OnPlay_wraps_phase(osc, freq) ==
    [osc EXCEPT !.phase = @ % SAMPLE_HZ, !.pitch = freq, !.volume = AudibleVolume]

OnPlay(osc, freq) == [osc EXCEPT !.pitch = freq, !.volume = AudibleVolume]

OnStop_keep_volume(osc) == osc

OnStop_clears_pitch(osc) == [osc EXCEPT !.pitch = 0, !.volume = 0]

OnStop(osc) == [osc EXCEPT !.volume = 0]

----------------------------------------------------------------------------
Init ==
    /\ pc = "read"
    /\ character = 0
    /\ lookup = None
    /\ consumed = <<>>
    /\ senderAlive = TRUE
    /\ queue = <<>>
    /\ sent = <<>>
    /\ applied = <<>>
    /\ osc_a = Oscillator(0, 0, 0)
    /\ osc_b = Oscillator(0, 0, 0)
    /\ buffer = <<>>
    /\ ret = "None"
    /\ ticks = 0

audioVars == <<osc_a, osc_b, buffer, ret, ticks, applied>>
inputVars == <<pc, character, lookup, consumed, senderAlive, sent>>

----------------------------------------------------------------------------
(* Input thread *)

\* The stdin loop hands a mapped byte to play: Play is sent and the thread
\* sleeps for the press.
PlaySendPlay ==
    /\ pc = "read"
    /\ Len(consumed) < MaxInput
    /\ \E c \in Keys :
         /\ to_frequencies(c) # None
         /\ character' = c
         /\ lookup' = to_frequencies(c)
         /\ consumed' = Append(consumed, c)
         /\ queue' = send(queue, Play(to_frequencies(c)[1], to_frequencies(c)[2]))
         /\ sent' = Append(sent, Play(to_frequencies(c)[1], to_frequencies(c)[2]))
    /\ pc' = "press"
    /\ UNCHANGED <<senderAlive>>
    /\ UNCHANGED audioVars

PlayUnmapped_sends_stop ==
    /\ pc = "read"
    /\ Len(consumed) < MaxInput
    /\ \E c \in Keys :
         /\ to_frequencies(c) = None
         /\ character' = c
         /\ lookup' = None
         /\ consumed' = Append(consumed, c)
    /\ queue' = send(queue, Stop)
    /\ sent' = Append(sent, Stop)
    /\ UNCHANGED <<pc, senderAlive>>
    /\ UNCHANGED audioVars

\* The stdin loop hands an unmapped byte to play: the if-let does not match.
PlayUnmapped ==
    /\ pc = "read"
    /\ Len(consumed) < MaxInput
    /\ \E c \in Keys :
         /\ to_frequencies(c) = None
         /\ character' = c
         /\ lookup' = None
         /\ consumed' = Append(consumed, c)
    /\ UNCHANGED <<pc, senderAlive, queue, sent>>
    /\ UNCHANGED audioVars

PlaySendStop_sends_play ==
    /\ pc = "press"
    /\ queue' = send(queue, Play(lookup[1], lookup[2]))
    /\ sent' = Append(sent, Play(lookup[1], lookup[2]))
    /\ pc' = "read"
    /\ UNCHANGED <<character, lookup, consumed, senderAlive>>
    /\ UNCHANGED audioVars

PlaySendStop_skips ==
    /\ pc = "press"
    /\ pc' = "read"
    /\ UNCHANGED <<character, lookup, consumed, senderAlive, queue, sent>>
    /\ UNCHANGED audioVars

\* The press is over: Stop is sent, the thread sleeps for the gap and play
\* returns to the stdin loop.
PlaySendStop ==
    /\ pc = "press"
    /\ queue' = send(queue, Stop)
    /\ sent' = Append(sent, Stop)
    /\ pc' = "read"
    /\ UNCHANGED <<character, lookup, consumed, senderAlive>>
    /\ UNCHANGED audioVars

\* stdin is at its end: the loop ends, run returns and tx is dropped.
EndOfInput ==
    /\ pc = "read"
    /\ pc' = "done"
    /\ senderAlive' = FALSE
    /\ UNCHANGED <<character, lookup, consumed, queue, sent>>
    /\ UNCHANGED audioVars

----------------------------------------------------------------------------
(* Audio thread *)

StreamActive_after_complete == ticks < MaxTicks

StreamActive_blocking_recv ==
    /\ ret # "Complete"
    /\ ticks < MaxTicks \/ ~senderAlive
    /\ queue # <<>> \/ ~senderAlive

\* PortAudio keeps invoking the callback, whatever the input thread does,
\* until the callback has returned Complete.  While the sender is alive the
\* number of callbacks is capped at MaxTicks; once it has been dropped the
\* callbacks left are bounded by the commands still queued.
StreamActive ==
    /\ ret # "Complete"
    /\ ticks < MaxTicks \/ ~senderAlive

Callback_apply_then_render ==
    /\ StreamActive
    /\ LET r  == try_recv(queue, senderAlive)
           a1 == IF r.tag = "Ok"
                 THEN IF r.msg.type = "Play" THEN OnPlay(osc_a, r.msg.a)
                                             ELSE OnStop(osc_a)
                 ELSE osc_a
           b1 == IF r.tag = "Ok"
                 THEN IF r.msg.type = "Play" THEN OnPlay(osc_b, r.msg.b)
                                             ELSE OnStop(osc_b)
                 ELSE osc_b
           g  == graph_audio_requested(a1, b1)
       IN  /\ buffer' = g.buffer
           /\ queue' = r.rest
           /\ osc_a' = g.a
           /\ osc_b' = g.b
           /\ applied' = IF r.tag = "Ok" THEN Append(applied, r.msg) ELSE applied
           /\ ret' = IF r.tag = "Disconnected" THEN "Complete" ELSE "Continue"
    /\ ticks' = ticks + 1
    /\ UNCHANGED inputVars

Callback_play_swapped ==
    /\ StreamActive
    /\ \E g \in {graph_audio_requested(osc_a, osc_b)},
          r \in {try_recv(queue, senderAlive)} :
           /\ buffer' = g.buffer
           /\ queue' = r.rest
           /\ IF r.tag = "Ok"
              THEN /\ applied' = Append(applied, r.msg)
                   /\ IF r.msg.type = "Play"
                      THEN /\ osc_a' = OnPlay(g.a, r.msg.b)
                           /\ osc_b' = OnPlay(g.b, r.msg.a)
                      ELSE /\ osc_a' = OnStop(g.a)
                           /\ osc_b' = OnStop(g.b)
              ELSE /\ applied' = applied
                   /\ osc_a' = g.a
                   /\ osc_b' = g.b
           /\ ret' = IF r.tag = "Disconnected" THEN "Complete" ELSE "Continue"
    /\ ticks' = ticks + 1
    /\ UNCHANGED inputVars

\* One invocation of the stream callback.  PortAudio stops calling it once
\* it has returned Complete.
Callback ==
    /\ StreamActive
    /\ \E g \in {graph_audio_requested(osc_a, osc_b)},
          r \in {try_recv(queue, senderAlive)} :
           /\ buffer' = g.buffer
           /\ queue' = r.rest
           /\ IF r.tag = "Ok"
              THEN /\ applied' = Append(applied, r.msg)
                   /\ IF r.msg.type = "Play"
                      THEN /\ osc_a' = OnPlay(g.a, r.msg.a)
                           /\ osc_b' = OnPlay(g.b, r.msg.b)
                      ELSE /\ osc_a' = OnStop(g.a)
                           /\ osc_b' = OnStop(g.b)
              ELSE /\ applied' = applied
                   /\ osc_a' = g.a
                   /\ osc_b' = g.b
           /\ ret' = IF r.tag = "Disconnected" THEN "Complete" ELSE "Continue"
    /\ ticks' = ticks + 1
    /\ UNCHANGED inputVars

----------------------------------------------------------------------------
Next ==
    \/ PlaySendPlay
    \/ PlayUnmapped
    \/ PlaySendStop
    \/ EndOfInput
    \/ Callback

Spec == Init /\ [][Next]_vars

\* The audio driver invokes the callback periodically while the stream is
\* active.
FairSpec == Spec /\ WF_vars(Callback)

----------------------------------------------------------------------------
(* to_frequencies on its own: every byte value is looked up once *)

LookupInit ==
    /\ pc = "call"
    /\ character \in Bytes
    /\ lookup = None
    /\ consumed = <<>>
    /\ senderAlive = TRUE
    /\ queue = <<>>
    /\ sent = <<>>
    /\ applied = <<>>
    /\ osc_a = Oscillator(0, 0, 0)
    /\ osc_b = Oscillator(0, 0, 0)
    /\ buffer = <<>>
    /\ ret = "None"
    /\ ticks = 0

Lookup ==
    /\ pc = "call"
    /\ lookup' = to_frequencies(character)
    /\ pc' = "return"
    /\ UNCHANGED <<character, consumed, senderAlive, queue, sent>>
    /\ UNCHANGED audioVars

LookupNext == Lookup

LookupSpec == LookupInit /\ [][LookupNext]_vars

----------------------------------------------------------------------------
(* Vocabulary of the properties *)

Last(s) == s[Len(s)]

\* The step is one invocation of the callback.
Tick == ticks' = ticks + 1

IsSilent(buf) ==
    \A i \in DOMAIN buf : \A ch \in DOMAIN buf[i] : buf[i][ch] = 0

\* The buffer of two sine oscillators summed, in closed form: frame i holds,
\* on every channel, the two sines taken i - 1 phase steps after the start.
ExpectedBuffer(pa, fa, va, pb, fb, vb) ==
    [i \in 1..FRAMES |->
        [ch \in 1..CHANNELS |->
            sin_milli(pa + (i - 1) * fa) * va
          + sin_milli(pb + (i - 1) * fb) * vb]]

\* The DTMF keypad: rows share the low frequency, columns the high one.
Keypad == << <<49, 50, 51, 65>>,      \* 1 2 3 A
             <<52, 53, 54, 66>>,      \* 4 5 6 B
             <<55, 56, 57, 67>>,      \* 7 8 9 C
             <<42, 48, 35, 68>> >>    \* * 0 # D
RowHz == <<697, 770, 852, 941>>
ColHz == <<1209, 1336, 1477, 1633>>

DtmfPair(c) ==
    IF \E r \in 1..4, k \in 1..4 : Keypad[r][k] = c
    THEN LET r == CHOOSE r \in 1..4 : \E k \in 1..4 : Keypad[r][k] = c
             k == CHOOSE k \in 1..4 : Keypad[r][k] = c
         IN  <<ColHz[k], RowHz[r]>>
    ELSE <<>>

\* What play has sent after the given bytes: Play then Stop for each mapped
\* byte, nothing for the others.
RECURSIVE Presses(_)
Presses(cs) ==
    IF cs = <<>>
    THEN <<>>
    ELSE LET c == Head(cs)
         IN  (IF DtmfPair(c) = <<>>
              THEN <<>>
              ELSE << [type |-> "Play", a |-> DtmfPair(c)[1], b |-> DtmfPair(c)[2]],
                      [type |-> "Stop"] >>)
             \o Presses(Tail(cs))

----------------------------------------------------------------------------
(* C1: once a callback has received Stop, every later callback renders a    *)
(* buffer of zero samples, up to and including the callback that receives   *)
(* the next Play: whenever the last command applied is Stop, the buffer     *)
(* rendered by the next callback is silent.                                 *)
C1_SilenceAfterStop ==
    [][(applied # <<>> /\ Last(applied) = Stop /\ Tick) => IsSilent(buffer')]_vars

\* The callback that received the Play following a Stop has rendered a
\* silent buffer, after the oscillators had been sounding.
C1_Witness ==
    /\ Len(applied) >= 3
    /\ applied[Len(applied) - 1] = Stop
    /\ Last(applied).type = "Play"
    /\ IsSilent(buffer)
    /\ osc_a.phase > 0

(* C2: after a callback receives Play(fa, fb) the next buffer is rendered   *)
(* at frequencies fa and fb, both at volume 0.2, starting from the phases   *)
(* the oscillators had reached when the command was applied: applying Play  *)
(* leaves each phase at the value the rendering of that callback reached,   *)
(* nothing but a callback touches the oscillators, and the next callback    *)
(* renders from those phases with fa, fb and the audible volume.            *)
C2_PlayHeardInNextBuffer ==
    [][/\ (Tick /\ queue # <<>> /\ Head(queue).type = "Play") =>
              /\ osc_a'.phase = osc_a.phase + FRAMES * osc_a.pitch
              /\ osc_b'.phase = osc_b.phase + FRAMES * osc_b.pitch
       /\ ~Tick => UNCHANGED <<osc_a, osc_b>>
       /\ (Tick /\ applied # <<>> /\ Last(applied).type = "Play") =>
              buffer' = ExpectedBuffer(osc_a.phase, Last(applied).a, AudibleVolume,
                                       osc_b.phase, Last(applied).b, AudibleVolume)
      ]_vars

\* A second Play has been applied with the phases carried over from the
\* first press, and a sounding buffer has been rendered after it.
C2_Witness ==
    /\ Len(applied) >= 3
    /\ Last(applied).type = "Play"
    /\ osc_a.phase > FRAMES * osc_a.pitch
    /\ ~IsSilent(buffer)

(* C3 as stated: once the sender has been dropped the very next callback    *)
(* returns Complete, whatever the channel still holds.                      *)
C3_Original ==
    [][(~senderAlive /\ Tick) => ret' = "Complete"]_vars

(* C3 as amended: once the sender has been dropped, a callback returns      *)
(* Complete exactly when it finds the channel empty; a callback that finds  *)
(* a queued command receives it and returns Continue.                       *)
C3_CompleteWhenDrained ==
    [][(~senderAlive /\ Tick) =>
          /\ (queue = <<>>) => ret' = "Complete"
          /\ (queue # <<>>) => (ret' = "Continue" /\ queue' = Tail(queue))]_vars

\* The stream has completed after the sender was dropped with commands
\* still queued at some point (all of them were applied first).
C3_Witness ==
    /\ ret = "Complete"
    /\ ~senderAlive
    /\ sent # <<>>
    /\ applied = sent

(* C4 as stated: the command is applied first and the buffer rendered       *)
(* afterwards, so the buffer of a callback that receives a command is       *)
(* rendered at the frequency and volume that command sets.                  *)
C4_Original ==
    [][(Tick /\ queue # <<>>) =>
          buffer' = ExpectedBuffer(osc_a.phase, osc_a'.pitch, osc_a'.volume,
                                   osc_b.phase, osc_b'.pitch, osc_b'.volume)]_vars

(* C4 as amended: the buffer is rendered first and the command applied      *)
(* afterwards, so the buffer of every callback is rendered at the           *)
(* frequency and volume in force before the callback, and the command       *)
(* received in it shows in the oscillators only after the rendering.        *)
C4_RenderBeforeApply ==
    [][Tick =>
          /\ buffer' = ExpectedBuffer(osc_a.phase, osc_a.pitch, osc_a.volume,
                                      osc_b.phase, osc_b.pitch, osc_b.volume)
          /\ (queue # <<>> /\ Head(queue).type = "Play") =>
                 /\ osc_a'.pitch = Head(queue).a /\ osc_a'.volume = AudibleVolume
                 /\ osc_b'.pitch = Head(queue).b /\ osc_b'.volume = AudibleVolume
          /\ (queue # <<>> /\ Head(queue).type = "Stop") =>
                 /\ osc_a'.volume = 0
                 /\ osc_b'.volume = 0]_vars

\* A callback has received Play, the oscillators are audible, and the
\* buffer it rendered is still silent.
C4_Witness ==
    /\ applied # <<>>
    /\ Last(applied).type = "Play"
    /\ osc_a.volume = AudibleVolume
    /\ osc_a.pitch > 0
    /\ IsSilent(buffer)

(* C5: every callback removes exactly one command from a non-empty channel, *)
(* none from an empty one and never more than one.                          *)
C5_OnePerCallback ==
    [][Tick =>
          /\ queue' = (IF queue = <<>> THEN <<>> ELSE Tail(queue))
          /\ Len(applied') = Len(applied) + (IF queue = <<>> THEN 0 ELSE 1)]_vars

\* One callback has run on a burst and has taken one command of it.
C5_Witness ==
    /\ ticks = 1
    /\ Len(applied) = 1
    /\ Len(queue) >= 2

(* C6: no command is dropped or duplicated: the commands applied are a      *)
(* prefix of the commands sent, in order, and the rest of the commands sent *)
(* is exactly what the channel holds.                                       *)
C6_NoDropNoDup ==
    /\ Len(applied) <= Len(sent)
    /\ applied = SubSeq(sent, 1, Len(applied))
    /\ queue = SubSeq(sent, Len(applied) + 1, Len(sent))

\* Commands have been applied while others wait in the channel.
C6_Witness ==
    /\ Len(applied) >= 2
    /\ Len(queue) >= 2

(* C7: to_frequencies returns the DTMF pair of each of the 16 keypad        *)
(* symbols (high frequency by column, low frequency by row; '5' gives       *)
(* (1336, 770)) and None for every other character.                         *)
C7_DtmfTable ==
    pc = "return" =>
        /\ lookup = DtmfPair(character)
        /\ (character = 53 => lookup = <<1336, 770>>)
        /\ (lookup # <<>> => /\ lookup[1] \in {1209, 1336, 1477, 1633}
                             /\ lookup[2] \in {697, 770, 852, 941})

\* '5' has been looked up.
C7_Witness ==
    /\ pc = "return"
    /\ character = 53
    /\ lookup = <<1336, 770>>

(* C8: each oscillator's volume is 0 or the audible level 0.2, and it is 0  *)
(* exactly when the last command applied is Stop or none has been applied.  *)
C8_VolumeTracksTone ==
    \A osc \in {osc_a, osc_b} :
        /\ osc.volume \in {0, AudibleVolume}
        /\ osc.volume = 0 <=> (applied = <<>> \/ Last(applied) = Stop)

\* A tone is on after an earlier one was switched off.
C8_Witness ==
    /\ Len(applied) >= 3
    /\ Last(applied).type = "Play"
    /\ osc_a.volume = AudibleVolume
    /\ osc_b.volume = AudibleVolume

(* C9: for every mapped symbol play sends Play with the symbol's pair and   *)
(* then Stop, and nothing else: the commands sent are the Play, Stop pairs  *)
(* of the mapped bytes read, less the last Stop while play sleeps between   *)
(* its two sends.                                                           *)
C9_PlayThenStop ==
    sent = IF pc = "press"
           THEN SubSeq(Presses(consumed), 1, Len(Presses(consumed)) - 1)
           ELSE Presses(consumed)

\* play has returned from a second mapped symbol.
C9_Witness ==
    /\ pc = "read"
    /\ Len(sent) = 4
    /\ lookup # None

(* C10: for an unmapped symbol play sends nothing and fails nothing: the    *)
(* step that reads it leaves the channel, the oscillators and the input     *)
(* thread's position as they were.                                          *)
C10_UnmappedIgnored ==
    [][(Len(consumed') = Len(consumed) + 1 /\ to_frequencies(Last(consumed')) = None) =>
          /\ UNCHANGED <<queue, sent, applied, osc_a, osc_b, buffer, ret, ticks>>
          /\ UNCHANGED <<pc, senderAlive>>
          /\ lookup' = None]_vars

\* An unmapped byte has been read while commands were waiting.
C10_Witness ==
    /\ consumed # <<>>
    /\ to_frequencies(Last(consumed)) = None
    /\ lookup = None
    /\ queue # <<>>

Abs(x) == IF x < 0 THEN 0 - x ELSE x

C12_MixBounded ==
    [][Tick =>
          \A i \in 1..FRAMES : \A ch \in 1..CHANNELS :
              /\ Abs(buffer'[i][ch]) <= 1000 * (osc_a.volume + osc_b.volume)
              /\ Abs(buffer'[i][ch]) <= 400000
              /\ Abs(audio_requested(osc_a, FRAMES).out[i][ch]) <= 1000 * osc_a.volume
              /\ Abs(audio_requested(osc_b, FRAMES).out[i][ch]) <= 1000 * osc_b.volume]_vars

\* A buffer holds a sample louder than either oscillator alone can be.
C12_Witness ==
    /\ buffer # <<>>
    /\ \E i \in 1..FRAMES : Abs(buffer[i][1]) > 1000 * AudibleVolume

(* C13: the callback never waits for the input thread: as long as the       *)
(* stream has not completed, a callback can run and return, whatever the    *)
(* channel holds and wherever the input thread is.                          *)
C13_NeverBlocks ==
    (ret # "Complete" /\ (ticks < MaxTicks \/ ~senderAlive)) =>
        ENABLED (Callback /\ ret' \in {"Continue", "Complete"})

\* A callback has run on the empty channel while play was sleeping between
\* Play and Stop.
C13_Witness ==
    /\ pc = "press"
    /\ Len(sent) = 1
    /\ queue = <<>>
    /\ ret = "Continue"
    /\ ~IsSilent(buffer)

(* C14: the callback that receives Play(fa, fb) sets oscillator A to fa and *)
(* oscillator B to fb, both volumes to 0.2, leaves both phases where the    *)
(* rendering of that callback left them, and returns Continue.              *)
C14_PlayFrame ==
    [][(Tick /\ queue # <<>> /\ Head(queue).type = "Play") =>
          /\ osc_a' = [phase  |-> osc_a.phase + FRAMES * osc_a.pitch,
                       pitch  |-> Head(queue).a,
                       volume |-> AudibleVolume]
          /\ osc_b' = [phase  |-> osc_b.phase + FRAMES * osc_b.pitch,
                       pitch  |-> Head(queue).b,
                       volume |-> AudibleVolume]
          /\ ret' = "Continue"]_vars

\* A Play has been applied to oscillators that were past their first cycle.
C14_Witness ==
    /\ Len(applied) >= 3
    /\ Last(applied).type = "Play"
    /\ osc_a.phase >= SAMPLE_HZ
    /\ osc_a.pitch = Last(applied).a
    /\ osc_b.pitch = Last(applied).b

(* C15: the callback that receives Stop sets both volumes to 0, leaves both *)
(* frequencies as they were and both phases where the rendering left them,  *)
(* and returns Continue; so while Stop is the last command applied the      *)
(* frequencies are those of the Play applied before it.                     *)
C15_StopFrame ==
    [][/\ (Tick /\ queue # <<>> /\ Head(queue).type = "Stop") =>
              /\ osc_a' = [phase  |-> osc_a.phase + FRAMES * osc_a.pitch,
                           pitch  |-> osc_a.pitch,
                           volume |-> 0]
              /\ osc_b' = [phase  |-> osc_b.phase + FRAMES * osc_b.pitch,
                           pitch  |-> osc_b.pitch,
                           volume |-> 0]
              /\ ret' = "Continue"
       /\ (applied # <<>> /\ Last(applied).type = "Stop") =>
              /\ Len(applied) >= 2
              /\ applied[Len(applied) - 1].type = "Play"
              /\ osc_a.pitch = applied[Len(applied) - 1].a
              /\ osc_b.pitch = applied[Len(applied) - 1].b]_vars

\* Stop has been applied and the oscillators are silent but primed.
C15_Witness ==
    /\ applied # <<>>
    /\ Last(applied).type = "Stop"
    /\ osc_a.volume = 0
    /\ osc_a.pitch > 0
    /\ osc_b.pitch > 0
    /\ ticks > Len(applied)

(* C16: a callback that finds the channel empty while the sender is alive   *)
(* leaves frequency and volume of both oscillators and the channel as they  *)
(* were and returns Continue.                                               *)
C16_EmptyFrame ==
    [][(Tick /\ queue = <<>> /\ senderAlive) =>
          /\ osc_a'.pitch = osc_a.pitch /\ osc_a'.volume = osc_a.volume
          /\ osc_b'.pitch = osc_b.pitch /\ osc_b'.volume = osc_b.volume
          /\ queue' = queue
          /\ applied' = applied
          /\ ret' = "Continue"]_vars

\* More callbacks have run than commands were received, during a tone.
C16_Witness ==
    /\ senderAlive
    /\ queue = <<>>
    /\ ticks > Len(applied) + 1
    /\ osc_a.volume = AudibleVolume
    /\ ret = "Continue"

(* C17: each rendered frame advances the phase by frequency / sample_rate   *)
(* at the frequency in force during that callback, so a callback of N       *)
(* frames advances it by N * frequency / sample_rate; the phase never       *)
(* decreases, is never reset to 0 and is never wrapped (phase in units of   *)
(* 1 / sample_rate cycles).                                                 *)
C17_PhaseAdvance ==
    [][/\ Tick => /\ \A k \in 0..FRAMES :
                        /\ audio_requested(osc_a, k).osc.phase
                              = osc_a.phase + k * osc_a.pitch
                        /\ audio_requested(osc_b, k).osc.phase
                              = osc_b.phase + k * osc_b.pitch
                   /\ osc_a'.phase = osc_a.phase + FRAMES * osc_a.pitch
                   /\ osc_b'.phase = osc_b.phase + FRAMES * osc_b.pitch
       /\ ~Tick => (osc_a'.phase = osc_a.phase /\ osc_b'.phase = osc_b.phase)
       /\ osc_a'.phase >= osc_a.phase
       /\ osc_b'.phase >= osc_b.phase]_vars

\* Both phases have gone past a whole cycle without being wrapped.
C17_Witness ==
    /\ osc_a.phase > 2 * SAMPLE_HZ
    /\ osc_b.phase > SAMPLE_HZ
    /\ ticks >= 3

(* C18: the commands sent alternate Play, Stop, Play, Stop, ... starting    *)
(* with Play, so do the commands applied, and once the input has ended and  *)
(* every command sent has been applied both oscillators are silent.         *)
C18_Alternation ==
    /\ \A i \in 1..Len(sent) :
           sent[i].type = IF i % 2 = 1 THEN "Play" ELSE "Stop"
    /\ \A i \in 1..Len(applied) :
           applied[i].type = IF i % 2 = 1 THEN "Play" ELSE "Stop"
    /\ (pc = "done" /\ Len(applied) = Len(sent)) =>
           (osc_a.volume = 0 /\ osc_b.volume = 0)

\* The input has ended and two presses have been played out.
C18_Witness ==
    /\ pc = "done"
    /\ Len(sent) = 4
    /\ Len(applied) = 4
    /\ osc_a.volume = 0
    /\ osc_b.volume = 0

(* C19: the two oscillators always have the same volume, and their          *)
(* frequencies are both 0 or the pair of one keypad symbol, oscillator A    *)
(* at the high-group and oscillator B at the low-group frequency.           *)
C19_PairOfOneSymbol ==
    /\ osc_a.volume = osc_b.volume
    /\ \/ (osc_a.pitch = 0 /\ osc_b.pitch = 0)
       \/ /\ \E c \in Bytes : DtmfPair(c) = <<osc_a.pitch, osc_b.pitch>>
          /\ osc_a.pitch \in {1209, 1336, 1477, 1633}
          /\ osc_b.pitch \in {697, 770, 852, 941}

\* The oscillators hold the pair of '#' after having held another pair.
C19_Witness ==
    /\ Len(applied) >= 3
    /\ osc_a.pitch = 1477
    /\ osc_b.pitch = 941
    /\ applied[1].a # 1477

(* C20: the callback never returns Complete while a command sent is still   *)
(* in the channel: when the stream completes, every command sent has been   *)
(* applied.                                                                 *)
C20_DrainBeforeComplete ==
    ret = "Complete" => (queue = <<>> /\ applied = sent)

\* The stream has completed one callback after the last of four commands
\* was received: every callback before the last one delivered a command.
C20_Witness ==
    /\ ret = "Complete"
    /\ Len(applied) = 4
    /\ ticks = Len(applied) + 1

====
